---------------------------- MODULE Spec2Model ----------------------------
(***************************************************************************)
(* KemahBot orchestrator (src/chatbot_ui/orchestrator.py): keyword         *)
(* extraction, retrieval, context normalisation and answer generation,     *)
(* with their fallbacks.                                                   *)
(*                                                                         *)
(* Python values are tagged records [k |-> tag, v |-> payload].  A str is  *)
(* a sequence of atoms: an atom is one character ("a", " ", "\n") or an    *)
(* opaque run of literal text that holds no leading or trailing            *)
(* whitespace ("Maaf, data konteks tidak valid.").                         *)
(***************************************************************************)
EXTENDS Integers, Sequences, FiniteSets, TLC

VARIABLES pc, user_input, model, kw_resp, keywords, http, raw_context,
          ans_resp, cleaned, answer, raised, calls

vars == <<pc, user_input, model, kw_resp, keywords, http, raw_context,
          ans_resp, cleaned, answer, raised, calls>>

-----------------------------------------------------------------------------
(* Bounds of the model *)

\* Longest query / backend text enumerated character by character.
MaxQLen == 3
\* Most words in a generated many-word query or backend text.
MaxRep == 7
\* Longest list of records the retrieval service returns.
MaxRecs == 4
\* Longest price list of a record.
MaxPrices == 2
\* Most parts of a backend response's first candidate.
MaxParts == 2

(* Constants of the program *)

TOP_K == 3
MinTokenLen == 2
FallbackTokens == 8
MaxKeywordTokens == 12
HTTP_OK == 200

-----------------------------------------------------------------------------
(* Python values *)

PyNone == [k |-> "null"]
PyNum(n) == [k |-> "num", v |-> n]
PyBool(b) == [k |-> "bool", v |-> b]
PyStr(s) == [k |-> "str", v |-> s]
PyList(s) == [k |-> "list", v |-> s]
PyDict(f) == [k |-> "dict", v |-> f]

EmptyDict == PyDict([x \in {} |-> PyNone])

\* bool(v): None, 0, False, "", [] and {} are falsy.
Truthy(v) ==
    CASE v.k = "null" -> FALSE
      [] v.k = "num"  -> v.v # 0
      [] v.k = "bool" -> v.v
      [] v.k = "str"  -> v.v # <<>>
      [] v.k = "list" -> v.v # <<>>
      [] v.k = "dict" -> DOMAIN v.v # {}

\* a or b
PyOr(a, b) == IF Truthy(a) THEN a ELSE b

\* d.get(key) on a dict
DictGet(d, key) == IF key \in DOMAIN d.v THEN d.v[key] ELSE PyNone

\* The result of a call: a returned value or a raised exception.
Ret(v) == [exc |-> FALSE, val |-> v]
Exc == [exc |-> TRUE, val |-> PyNone]

-----------------------------------------------------------------------------
(* str operations *)

Whitespace == {" ", "\n"}

IsSpace(c) == c \in Whitespace

\* [0-9a-z\s\-]: the characters the keyword sanitiser keeps.
KeptChars == {"a", "b", "e", "f", "i", "k", "m", "w", "7", "-"} \cup Whitespace

LowerChar(c) ==
    CASE c = "A" -> "a"
      [] c = "F" -> "f"
      [] c = "K" -> "k"
      [] c = "W" -> "w"
      [] OTHER   -> c

\* str.lower()
Lower(s) == [i \in 1..Len(s) |-> LowerChar(s[i])]

RECURSIVE LStrip(_)
LStrip(s) == IF s # <<>> /\ IsSpace(Head(s)) THEN LStrip(Tail(s)) ELSE s

RECURSIVE RStrip(_)
RStrip(s) ==
    IF s # <<>> /\ IsSpace(s[Len(s)]) THEN RStrip(SubSeq(s, 1, Len(s) - 1)) ELSE s

\* str.strip()
Strip(s) == RStrip(LStrip(s))

\* Length of the leading run of non-whitespace.
RECURSIVE WordLen(_)
WordLen(s) == IF s = <<>> \/ IsSpace(Head(s)) THEN 0 ELSE 1 + WordLen(Tail(s))

\* str.split(): the maximal runs of non-whitespace, in order.
RECURSIVE Split(_)
Split(s) ==
    LET t == LStrip(s) IN
    IF t = <<>> THEN <<>>
    ELSE <<SubSeq(t, 1, WordLen(t))>> \o Split(SubSeq(t, WordLen(t) + 1, Len(t)))

\* sep.join(parts)
RECURSIVE Join(_, _)
Join(sep, parts) ==
    IF parts = <<>> THEN <<>>
    ELSE IF Len(parts) = 1 THEN parts[1]
    ELSE parts[1] \o sep \o Join(sep, Tail(parts))

\* seq[:n]
Take(s, n) == SubSeq(s, 1, IF Len(s) < n THEN Len(s) ELSE n)

\* re.sub(r"[^0-9a-z\s\-]", " ", s)
StripPunct(s) == [i \in 1..Len(s) |-> IF s[i] \in KeptChars THEN s[i] ELSE " "]

-----------------------------------------------------------------------------
(* Helper: safe LLM call wrapper *)

\* What the generation backend does on one generate_content call:
\*   gen   "ok" or "raises" (the call itself fails);
\*   text  the direct accessor resp.text: [k |-> "absent"] (hasattr is false),
\*         [k |-> "raises"] (the accessor raises, as it does for a response
\*         without valid parts) or [k |-> "value", v |-> a Python value];
\*   cands the walk resp.candidates[0].content.parts: [k |-> "raises"] (any
\*         step of the walk raises), [k |-> "empty"] (no candidates),
\*         [k |-> "nocontent"] (no content or no parts) or
\*         [k |-> "parts", v |-> the text of each part, None when it has none].
Resp(g, t, c) == [gen |-> g, text |-> t, cands |-> c]

TextAbsent == [k |-> "absent"]
TextRaises == [k |-> "raises"]
TextValue(v) == [k |-> "value", v |-> v]

WalkRaises == [k |-> "raises"]
WalkEmpty == [k |-> "empty"]
WalkNoContent == [k |-> "nocontent"]
WalkParts(ps) == [k |-> "parts", v |-> ps]

HasText(p) == Truthy(p)
PartText(p) == p.v

\* text_blocks of the candidate walk (lines 144-151).
TextBlocks(c) ==
    IF c.k = "parts"
    THEN LET kept == SelectSeq(c.v, HasText)
         IN  [i \in 1..Len(kept) |-> PartText(kept[i])]
    ELSE <<>>

\* Lines 143-158: the walk; whatever it raises is swallowed and "" returned.
WalkResult(c) ==
    IF TextBlocks(c) # <<>>
    THEN Ret(PyStr(Strip(Join(<<"\n">>, TextBlocks(c)))))
    ELSE Ret(PyStr(<<>>))

call_llm(m, resp) ==
    IF m = "None" THEN Exc
    ELSE IF resp.gen = "raises" THEN Exc
    ELSE IF resp.text.k = "raises" THEN Exc
    ELSE IF resp.text.k = "value" /\ Truthy(resp.text.v)
         THEN (IF resp.text.v.k = "str" THEN Ret(PyStr(Strip(resp.text.v.v))) ELSE Exc)
    ELSE WalkResult(resp.cands)

-----------------------------------------------------------------------------
(* Step 1: extract keywords via LLM (fallback naive) *)

Kemah == <<"k", "e", "m", "a", "h">>

LongToken(t) == Len(t) > MinTokenLen

\* Lines 179-180 and 199-200: lowercase words longer than 2 characters.
NaiveTokens(q) ==
    LET kept == SelectSeq(Split(q), LongToken)
    IN  [i \in 1..Len(kept) |-> Lower(kept[i])]

\* The sentinel forgotten.
NaiveKeywords_NoSentinel(q) == Join(<<" ">>, Take(NaiveTokens(q), FallbackTokens))

NaiveKeywords(q) ==
    LET joined == Join(<<" ">>, Take(NaiveTokens(q), FallbackTokens))
    IN  IF joined # <<>> THEN joined ELSE Kemah

\* Lines 189-196: sanitise what the backend answered.
SanitizeKeywords(kws) ==
    LET low == Lower(Strip(kws))
        cut == Join(<<" ">>, Take(Split(StripPunct(low)), MaxKeywordTokens))
    IN  IF cut = <<>> THEN Kemah ELSE cut

\* Lines 182-186.
KeywordPrompt(q) ==
    <<"Ekstrak HANYA keyword penting", "\n", "\n", "Pertanyaan:", " ">> \o q
        \o <<"\n", "\n", "Keyword:">>

\* The result, with the prompts sent to the backend on the way.
KwRet(v, sent) == [exc |-> FALSE, val |-> v, llm_calls |-> sent]
KwExc(sent) == [exc |-> TRUE, val |-> PyNone, llm_calls |-> sent]

\* The handler missing: the failure of the backend call reaches the caller.
KeywordsOnFailure_Reraise(q) == KwExc(<<KeywordPrompt(q)>>)

\* The handler calling the backend a second time before it gives up.
KeywordsOnFailure_Retry(q) ==
    KwRet(PyStr(NaiveKeywords(q)), <<KeywordPrompt(q), KeywordPrompt(q)>>)

\* Lines 197-200: the handler of a failed backend call.
KeywordsOnFailure(q) == KwRet(PyStr(NaiveKeywords(q)), <<KeywordPrompt(q)>>)

\* The query taken as given, not stripped.
CleanQuery_NoStrip(given) == given.v

\* Line 173.
CleanQuery(given) == Strip(given.v)

extract_keywords_from_query(uq, m, resp) ==
    LET given == PyOr(uq, PyStr(<<>>)) IN
    IF given.k # "str" THEN KwExc(<<>>)
    ELSE LET q == CleanQuery(given) IN
         IF q = <<>> THEN KwRet(PyStr(Kemah), <<>>)
         ELSE IF m = "None" THEN KwRet(PyStr(NaiveKeywords(q)), <<>>)
         ELSE LET r == call_llm(m, resp) IN
              IF r.exc THEN KeywordsOnFailure(q)
              ELSE KwRet(PyStr(SanitizeKeywords(PyOr(r.val, PyStr(<<>>)).v)),
                         <<KeywordPrompt(q)>>)

-----------------------------------------------------------------------------
(* Step 2: call retrieval API *)

\* What the POST meets: transport "ok", "connect_error" or "timeout"; the
\* status code; the body, [k |-> "malformed"] or [k |-> "json", v |-> value].
Http(t, s, b) == [transport |-> t, status |-> s, body |-> b]

BodyMalformed == [k |-> "malformed"]
BodyJson(v) == [k |-> "json", v |-> v]

\* r.json()
ParseJson(body) == IF body.k = "json" THEN Ret(body.v) ELSE Exc

\* The status not looked at.
StatusOk_Any(h) == TRUE

\* Lines 213-215.
StatusOk(h) == h.status = HTTP_OK

\* Lines 217-219.
IsArray(data) == data.k = "list"

get_retrieval_context(kws, h) ==
    IF h.transport # "ok" THEN Ret(PyList(<<>>))
    ELSE IF ~StatusOk(h) THEN Ret(PyList(<<>>))
    ELSE LET data == ParseJson(h.body) IN
         IF data.exc THEN Ret(PyList(<<>>))
         ELSE IF ~IsArray(data.val) THEN Ret(PyList(<<>>))
         ELSE IF ~Truthy(data.val) THEN Ret(PyList(<<>>))
         ELSE Ret(data.val)

-----------------------------------------------------------------------------
(* Helper: sanitize/prune API context *)

Digits == {"0", "1", "2", "3", "4", "5", "6", "7", "8", "9"}

DigitVal(c) ==
    CASE c = "0" -> 0 [] c = "1" -> 1 [] c = "2" -> 2 [] c = "3" -> 3
      [] c = "4" -> 4 [] c = "5" -> 5 [] c = "6" -> 6 [] c = "7" -> 7
      [] c = "8" -> 8 [] c = "9" -> 9

RECURSIVE DecimalVal(_)
DecimalVal(s) ==
    IF s = <<>> THEN 0 ELSE 10 * DecimalVal(SubSeq(s, 1, Len(s) - 1)) + DigitVal(s[Len(s)])

\* float(h), on the values the model draws: a number converts, True and
\* False are 1 and 0, a str converts when it is decimal digits (surrounding
\* whitespace allowed), and None, any other str, a list or a dict raises.
Float(h) ==
    CASE h.k = "num"  -> Ret(h)
      [] h.k = "bool" -> Ret(PyNum(IF h.v THEN 1 ELSE 0))
      [] h.k = "str"  ->
            LET t == Strip(h.v) IN
            IF t # <<>> /\ \A i \in 1..Len(t) : t[i] \in Digits
            THEN Ret(PyNum(DecimalVal(t)))
            ELSE Exc
      [] OTHER -> Exc

\* a.get(k1) or a.get(k2) or a.get(k3)
Or3(item, k1, k2, k3) == PyOr(PyOr(DictGet(item, k1), DictGet(item, k2)), DictGet(item, k3))

\* a.get(k1) or a.get(k2) or default
Or2(item, k1, k2, default) == PyOr(PyOr(DictGet(item, k1), DictGet(item, k2)), default)

\* Line 103.
PriceOf(p) == Or3(p, "harga", "price", "harga_rupiah")

\* Lines 100-108: the prices that convert, in the list's order.
RECURSIVE NumericPrices(_)
NumericPrices(ps) ==
    IF ps = <<>> THEN <<>>
    ELSE LET p == Head(ps)
             f == IF p.k = "dict" THEN Float(PriceOf(p)) ELSE Exc
         IN  (IF f.exc THEN <<>> ELSE <<f.val.v>>) \o NumericPrices(Tail(ps))

\* min(numeric_prices)
Min(ns) == CHOOSE n \in {ns[i] : i \in 1..Len(ns)} : \A j \in 1..Len(ns) : n <= ns[j]

\* Lines 97-110.
LowestPrice(item) ==
    LET price_items == Or2(item, "price_items", "Price_Items", PyList(<<>>))
        numeric_prices == IF price_items.k = "list" THEN NumericPrices(price_items.v) ELSE <<>>
    IN  IF numeric_prices # <<>> THEN PyNum(Min(numeric_prices)) ELSE PyNone

\* Lines 92-117: one record, normalised.
SimplifyItem(item) ==
    [nama           |-> Or3(item, "name", "nama", "Nama_Tempat"),
     lokasi         |-> Or3(item, "location", "lokasi", "Lokasi"),
     rating         |-> Or3(item, "avg_rating", "Avg_Rating", "rating"),
     fasilitas      |-> Or2(item, "facilities", "Facilities", PyStr(<<>>)),
     harga_termurah |-> LowestPrice(item)]

\* Lines 90 and 118-121: item.get raises on anything that is not a mapping,
\* and the record is skipped.
SimplifyOrSkip(item) == IF item.k = "dict" THEN <<SimplifyItem(item)>> ELSE <<>>

RECURSIVE SimplifyAll(_)
SimplifyAll(items) ==
    IF items = <<>> THEN <<>> ELSE SimplifyOrSkip(Head(items)) \o SimplifyAll(Tail(items))

\* The slice forgotten: every record is normalised.
simplify_context_NoLimit(api_list) == SimplifyAll(api_list)

simplify_context(api_list) == SimplifyAll(Take(api_list, TOP_K))

-----------------------------------------------------------------------------
(* Step 3: generate augmented response (RAG) *)

NoMatchReply == <<"Maaf, saya tidak menemukan tempat kemah yang cocok dengan kriteria Anda.">>
InvalidDataReply == <<"Maaf, data konteks tidak valid.">>
NoAnswerReply == <<"Maaf, model tidak menghasilkan jawaban.">>

\* f"{v}"
Fmt(v) ==
    CASE v.k = "str"  -> v.v
      [] v.k = "num"  -> <<ToString(v.v)>>
      [] v.k = "bool" -> IF v.v THEN <<"True">> ELSE <<"False">>
      [] v.k = "null" -> <<"None">>
      [] v.k = "list" -> <<"[", "...", "]">>
      [] v.k = "dict" -> <<"{", "...", "}">>

\* Lines 245-255: the fields of a record that are rendered.
RenderParts(it) ==
       (IF Truthy(it.nama) THEN <<Fmt(it.nama)>> ELSE <<>>)
    \o (IF Truthy(it.lokasi) THEN <<<<"(">> \o Fmt(it.lokasi) \o <<")">>>> ELSE <<>>)
    \o (IF it.rating # PyNone THEN <<<<"rating:", " ">> \o Fmt(it.rating)>> ELSE <<>>)
    \o (IF Truthy(it.fasilitas) THEN <<<<"fasilitas:", " ">> \o Fmt(it.fasilitas)>> ELSE <<>>)
    \o (IF it.harga_termurah # PyNone
        THEN <<<<"harga_termurah:", " ">> \o Fmt(it.harga_termurah)>> ELSE <<>>)

\* Lines 243-257.
ContextText(cl) ==
    Join(<<"\n">>, [i \in 1..Len(cl) |->
        <<ToString(i), ".", " ">> \o Join(<<" ", "*", " ">>, RenderParts(cl[i]))])

\* Lines 282-286 and 304-308: one bullet.
TemplateLine(it) ==
       <<"-", " ">>
    \o (IF Truthy(it.nama) THEN Fmt(it.nama) ELSE <<"Nama tidak tersedia">>)
    \o (IF it.rating # PyNone THEN <<" ", "(rating:", " ">> \o Fmt(it.rating) \o <<")">> ELSE <<>>)
    \o (IF Truthy(it.fasilitas) THEN <<",", " ", "fasilitas:", " ">> \o Fmt(it.fasilitas) ELSE <<>>)

TemplateLines(cl) ==
       <<<<"Halo! Saya menemukan beberapa tempat yang mungkin cocok:">>>>
    \o [i \in 1..Len(Take(cl, TOP_K)) |-> TemplateLine(cl[i])]
    \o <<<<"Mau lihat detail atau link maps?">>>>

\* Lines 278-289: the reply without a backend.
TemplatedReply(cl) == Join(<<"\n">>, TemplateLines(cl))

\* The handler answering with the apology instead of the list.
ReplyOnFailure_Apology(cl) == NoAnswerReply

\* Lines 298-311: the handler of a failed backend call.
ReplyOnFailure(cl) == Join(<<"\n">>, TemplateLines(cl))

\* Lines 264-273.
AnswerPrompt(uq, cl) ==
    <<"Anda adalah KemahBot", "\n", "DATA SINGKAT:", "\n">> \o ContextText(cl)
        \o <<"\n", "\n", "Pertanyaan:", " ">> \o Fmt(uq) \o <<"\n", "\n", "Jawaban:", "\n">>

\* The result, with the prompts sent to the backend on the way and the
\* normalised context it was built from.
GenRet(v, sent, cl) == [exc |-> FALSE, val |-> PyStr(v), llm_calls |-> sent, cleaned |-> cl]

\* Lines 292-297.
ReplyFromText(text) == IF Strip(text) = <<>> THEN NoAnswerReply ELSE Strip(text)

\* Lines 238-239.
NothingKept(cl) == cl = <<>>

\* "is None" in place of the truth test.
NoContext_IsNone(rc) == rc = PyNone

\* Line 234.
NoContext(rc) == ~Truthy(rc)

generate_augmented_response(uq, rc, m, resp) ==
    IF NoContext(rc) THEN GenRet(NoMatchReply, <<>>, <<>>)
    ELSE LET cl == simplify_context(rc.v) IN
         IF NothingKept(cl) THEN GenRet(InvalidDataReply, <<>>, cl)
         ELSE IF m = "None" THEN GenRet(TemplatedReply(cl), <<>>, cl)
         ELSE LET r == call_llm(m, resp) IN
              IF r.exc THEN GenRet(ReplyOnFailure(cl), <<AnswerPrompt(uq, cl)>>, cl)
              ELSE GenRet(ReplyFromText(PyOr(r.val, PyStr(<<>>)).v),
                          <<AnswerPrompt(uq, cl)>>, cl)

-----------------------------------------------------------------------------
(* Inputs *)

QChars == {" ", "a", "K"}

\* Every str of at most MaxQLen characters over QChars.
CharTexts == UNION {[1..n -> QChars] : n \in 0..MaxQLen}

RECURSIVE Rep(_, _)
Rep(w, n) == IF n = 0 THEN <<>> ELSE IF n = 1 THEN w ELSE w \o <<" ">> \o Rep(w, n - 1)

Words == {<<"K", "e", "m", " ", "w", "i", "f">>, <<"a", "!", "b", "-", "7">>, <<"W", "i", "F", "i", "!">>}

\* A word repeated 1..MaxRep times, separated by blanks.
ManyWordTexts == {Rep(w, n) : w \in Words, n \in 1..MaxRep}

Texts == CharTexts \cup ManyWordTexts \cup {<<"!">>, <<"\n", "a", "!", " ">>}

Queries == {PyNone} \cup {PyStr(t) : t \in Texts}

Parts == {PyNone, PyStr(<<" ">>), PyStr(<<"K", "!">>)}

PartLists == UNION {[1..n -> Parts] : n \in 0..MaxParts}

Walks == {WalkRaises, WalkEmpty, WalkNoContent} \cup {WalkParts(ps) : ps \in PartLists}

NoDirectText == {TextAbsent, TextRaises, TextValue(PyNone), TextValue(PyStr(<<>>))}

\* The backend failing, answering with one of texts, or answering with no
\* direct text and any candidate walk.
Responses(texts) ==
         {Resp("raises", TextAbsent, WalkEmpty)}
    \cup {Resp("ok", TextValue(PyStr(t)), WalkEmpty) : t \in texts}
    \cup {Resp("ok", TextValue(PyStr(<<"a", "K">>)), WalkRaises)}
    \cup {Resp("ok", t, c) : t \in NoDirectText, c \in Walks}

KeywordResponses == Responses(Texts)

AnswerTexts ==
    {<<" ">>, <<"\n", " ">>, <<"a">>, <<" ", "B", "u", "k", "i", "t", "\n">>,
     <<"Maaf, model tidak menghasilkan jawaban.">>}

AnswerResponses == Responses(AnswerTexts)

\* A mapping from the (key, value) pairs of S, which holds one pair a key.
MkDict(S) == PyDict([key \in {p[1] : p \in S} |-> (CHOOSE p \in S : p[1] = key)[2]])

\* The key absent, or present with one of vals.
Opt(key, vals) == {{}} \cup {{<<key, v>>} : v \in vals}

Combine(A, B, C) == {MkDict(a \cup b \cup c) : a \in A, b \in B, c \in C}

NameItems ==
    Combine(Opt("name", {PyNone, PyStr(<<>>), PyStr(<<"Bukit Hijau">>)}),
            Opt("nama", {PyNone, PyStr(<<"Telaga">>)}),
            Opt("Nama_Tempat", {PyStr(<<"Camp">>)}))

LocationItems ==
    Combine(Opt("location", {PyNone, PyStr(<<>>), PyStr(<<"Sleman">>)}),
            Opt("lokasi", {PyNone, PyStr(<<"Batang">>)}),
            Opt("Lokasi", {PyStr(<<"Kendal">>)}))

RatingItems ==
    Combine(Opt("avg_rating", {PyNone, PyNum(0), PyNum(4)}),
            Opt("Avg_Rating", {PyNone, PyNum(3)}),
            Opt("rating", {PyNum(5)}))

FacilityItems ==
    Combine(Opt("facilities", {PyNone, PyStr(<<>>), PyStr(<<"wifi,", " ", "toilet">>)}),
            Opt("Facilities", {PyNone, PyStr(<<"mushola">>)}),
            {{}})

PriceEntries ==
         Combine(Opt("harga", {PyNone, PyNum(0), PyStr(<<"0">>), PyNum(50), PyStr(<<"a", "b", "c">>)}),
                 Opt("price", {PyNum(70)}),
                 {{}})
    \cup Combine(Opt("harga", {PyStr(<<>>)}), {{}}, Opt("harga_rupiah", {PyStr(<<"3", "0">>)}))
    \cup {PyNum(20)}

PriceLists == UNION {[1..n -> PriceEntries] : n \in 0..MaxPrices}

PriceItems ==
         {MkDict({<<"price_items", PyList(l)>>}) : l \in PriceLists}
    \cup Combine(Opt("price_items", {PyNone, PyList(<<>>), PyList(<<MkDict({<<"harga", PyNum(50)>>})>>)}),
                 Opt("Price_Items", {PyNone, PyList(<<MkDict({<<"harga", PyNum(90)>>})>>)}),
                 {{}})

\* Scenario 3 of the specification.
BukitHijau ==
    MkDict({<<"name", PyStr(<<"Bukit Hijau">>)>>, <<"avg_rating", PyNum(4)>>,
            <<"facilities", PyStr(<<"wifi,", " ", "toilet">>)>>,
            <<"price_items", PyList(<<MkDict({<<"harga", PyStr(<<"5", "0">>)>>}),
                                      MkDict({<<"harga", PyStr(<<"a", "b", "c">>)>>})>>)>>})

Items == NameItems \cup LocationItems \cup RatingItems \cup FacilityItems \cup PriceItems
             \cup {BukitHijau}

\* Records of a few shapes: not a mapping, an empty mapping, a full record.
FewItems == {PyNum(1), EmptyDict, BukitHijau}

FewLists == UNION {[1..n -> FewItems] : n \in 0..MaxRecs}

-----------------------------------------------------------------------------
(* Orchestrator main *)

NotCalled == Resp("not called", TextAbsent, WalkEmpty)
NotSent == Http("not sent", 0, BodyMalformed)

Call(fn, to, arg) == [fn |-> fn, to |-> to, arg |-> arg]

LlmCalls(fn, sent) == [i \in 1..Len(sent) |-> Call(fn, "llm", sent[i])]

\* The state in which get_chatbot_reply(q) starts, at line 318.
Start(q, m) ==
    /\ pc = "extract"
    /\ user_input = q
    /\ model = m
    /\ kw_resp = NotCalled
    /\ keywords = PyNone
    /\ http = NotSent
    /\ raw_context = PyNone
    /\ ans_resp = NotCalled
    /\ cleaned = <<>>
    /\ answer = PyNone
    /\ raised = FALSE
    /\ calls = <<>>

\* Line 318: extract_keywords_from_query(user_input); the backend answers
\* with one of resps.
ExtractKeywords(resps) ==
    /\ pc = "extract"
    /\ \E resp \in resps :
        LET r == extract_keywords_from_query(user_input, model, resp) IN
        /\ kw_resp' = IF r.llm_calls # <<>> THEN resp ELSE NotCalled
        /\ calls' = calls \o LlmCalls("extract_keywords_from_query", r.llm_calls)
        /\ raised' = r.exc
        /\ keywords' = r.val
        /\ pc' = IF r.exc THEN "done" ELSE "retrieve"
    /\ UNCHANGED <<user_input, model, http, raw_context, ans_resp, cleaned, answer>>

\* Line 320: get_retrieval_context(keywords); the service answers with one
\* of hs.
GetRetrievalContext(hs) ==
    /\ pc = "retrieve"
    /\ \E h \in hs :
        LET r == get_retrieval_context(keywords, h) IN
        /\ http' = h
        /\ calls' = Append(calls, Call("get_retrieval_context", "http", keywords))
        /\ raised' = r.exc
        /\ raw_context' = r.val
        /\ pc' = IF r.exc THEN "done" ELSE "generate"
    /\ UNCHANGED <<user_input, model, kw_resp, keywords, ans_resp, cleaned, answer>>

\* Lines 322-324: generate_augmented_response(user_input, raw_context), and
\* the return of the answer.
GenerateAugmentedResponse(resps) ==
    /\ pc = "generate"
    /\ \E resp \in resps :
        LET r == generate_augmented_response(user_input, raw_context, model, resp) IN
        /\ ans_resp' = IF r.llm_calls # <<>> THEN resp ELSE NotCalled
        /\ calls' = calls \o LlmCalls("generate_augmented_response", r.llm_calls)
        /\ raised' = r.exc
        /\ cleaned' = r.cleaned
        /\ answer' = r.val
        /\ pc' = "done"
    /\ UNCHANGED <<user_input, model, kw_resp, keywords, http, raw_context>>

Models == {"None", "GenerativeModel"}

\* The whole pipeline, on a few queries, backend answers and service answers.
PipeQueries ==
    {PyNone, PyStr(<<>>), PyStr(<<" ">>), PyStr(<<"K", "e", "m", " ", "a">>),
     PyStr(<<"a", "K">>)}

PipeResponses ==
    {Resp("raises", TextAbsent, WalkEmpty),
     Resp("ok", TextValue(PyStr(<<"W", "i", "F", "i", "!">>)), WalkEmpty),
     Resp("ok", TextValue(PyStr(<<" ">>)), WalkEmpty),
     Resp("ok", TextValue(PyStr(<<>>)), WalkEmpty),
     Resp("ok", TextRaises, WalkEmpty),
     Resp("ok", TextAbsent, WalkRaises),
     Resp("ok", TextAbsent, WalkParts(<<PyNone, PyStr(<<"K", "!">>)>>)),
     Resp("ok", TextValue(PyNone), WalkNoContent)}

PipeBodies ==
    {BodyMalformed, BodyJson(PyNone), BodyJson(EmptyDict), BodyJson(BukitHijau),
     BodyJson(PyList(<<>>)), BodyJson(PyList(<<EmptyDict>>)), BodyJson(PyList(<<PyNum(1)>>)),
     BodyJson(PyList(<<BukitHijau>>)),
     BodyJson(PyList(<<BukitHijau, PyNum(1), EmptyDict, BukitHijau>>))}

PipeHttp ==
         {Http(t, HTTP_OK, BodyJson(PyList(<<BukitHijau>>))) : t \in {"connect_error", "timeout"}}
    \cup {Http("ok", st, b) : st \in {HTTP_OK, 404, 500}, b \in PipeBodies}

Init == \E q \in PipeQueries, m \in Models : Start(q, m)

Next ==
    \/ ExtractKeywords(PipeResponses)
    \/ GetRetrievalContext(PipeHttp)
    \/ GenerateAugmentedResponse(PipeResponses)

Spec == Init /\ [][Next]_vars

\* extract_keywords_from_query alone, on every query and backend answer.
InitKw == \E q \in Queries, m \in Models : Start(q, m)

NextKw == ExtractKeywords(KeywordResponses)

SpecKw == InitKw /\ [][NextKw]_vars

\* The state at line 322, retrieval having returned rc.
Retrieved(rc, m) ==
    /\ pc = "generate"
    /\ user_input = PyStr(<<"K", "e", "m">>)
    /\ model = m
    /\ kw_resp = NotCalled
    /\ keywords = PyStr(<<"k", "e", "m">>)
    /\ http = Http("ok", HTTP_OK, BodyJson(rc))
    /\ raw_context = rc
    /\ ans_resp = NotCalled
    /\ cleaned = <<>>
    /\ answer = PyNone
    /\ raised = FALSE
    /\ calls = <<Call("get_retrieval_context", "http", PyStr(<<"k", "e", "m">>))>>

\* generate_augmented_response alone, on one record of every shape.
InitNorm == \E it \in Items, m \in Models : Retrieved(PyList(<<it>>), m)

NextNorm == GenerateAugmentedResponse(PipeResponses)

SpecNorm == InitNorm /\ [][NextNorm]_vars

\* generate_augmented_response alone, on lists of records and every backend
\* answer.
InitGen == \E l \in FewLists, m \in Models : Retrieved(PyList(l), m)

NextGen == GenerateAugmentedResponse(AnswerResponses)

SpecGen == InitGen /\ [][NextGen]_vars

-----------------------------------------------------------------------------
(* Properties *)

Done == pc = "done"

IsLlmCall(c) == c.to = "llm"
IsAnswerCall(c) == c.to = "llm" /\ c.fn = "generate_augmented_response"
IsKeywordCall(c) == c.to = "llm" /\ c.fn = "extract_keywords_from_query"
IsHttpCall(c) == c.to = "http"

\* How many calls of each kind the call has made so far.
NumLlmCalls == Cardinality({i \in 1..Len(calls) : IsLlmCall(calls[i])})
NumAnswerCalls == Cardinality({i \in 1..Len(calls) : IsAnswerCall(calls[i])})
NumKeywordCalls == Cardinality({i \in 1..Len(calls) : IsKeywordCall(calls[i])})
NumHttpCalls == Cardinality({i \in 1..Len(calls) : IsHttpCall(calls[i])})

\* Each step of the call leads to the next one, and the last one returns.
Advances(from, to) ==
    \/ from = "extract" /\ to = "retrieve"
    \/ from = "retrieve" /\ to = "generate"
    \/ from = "generate" /\ to = "done"

\* C1: get_chatbot_reply never raises, each of its three steps leads to the
\* next and the last returns, and what it returns is a non-empty str,
\* whatever the query, the backend and the retrieval service do.
C1_AlwaysANonEmptyReply ==
    /\ [](~raised)
    /\ [](Done => answer.k = "str" /\ answer.v # <<>>)
    /\ [][Advances(pc, pc')]_vars

\* Both backend calls failed and the service answered with records.
C1_Witness ==
    /\ Done
    /\ kw_resp.gen = "raises"
    /\ ans_resp.gen = "raises"
    /\ Truthy(raw_context)
    /\ answer.k = "str"

\* C6 as stated: when retrieval returns the empty list the answer is the
\* no-match apology and the generation backend is never invoked in the call.
C6_NoBackendOnEmptyRetrieval ==
    (Done /\ raw_context = PyList(<<>>)) =>
        /\ answer = PyStr(NoMatchReply)
        /\ NumLlmCalls = 0

\* C6 amended: when retrieval returns the empty list the answer is the
\* no-match apology and no answer-generation call is made; the backend is
\* invoked at most once in the call, by keyword extraction before the
\* retrieval request.
C6_NoAnswerCallOnEmptyRetrieval ==
    (Done /\ raw_context = PyList(<<>>)) =>
        /\ answer = PyStr(NoMatchReply)
        /\ ans_resp = NotCalled
        /\ NumAnswerCalls = 0
        /\ NumLlmCalls <= 1
        /\ \A i \in 1..Len(calls) : IsLlmCall(calls[i]) => i = 1 /\ IsKeywordCall(calls[i])

\* Retrieval returned the empty list after the backend extracted keywords.
C6_Witness ==
    /\ Done
    /\ raw_context = PyList(<<>>)
    /\ http.status = HTTP_OK
    /\ NumKeywordCalls = 1
    /\ answer = PyStr(NoMatchReply)

IsArrayBody(h) == h.body.k = "json" /\ h.body.v.k = "list"

\* C7: once get_retrieval_context has returned, it has raised nothing, it
\* returned a list, and the list is non-empty only when the transport
\* succeeded, the status is 200 and the body parsed as an array; after
\* anything else the list is empty.
C7_RetrievalOnly200Array ==
    (http # NotSent) =>
        /\ ~raised
        /\ raw_context.k = "list"
        /\ raw_context.v # <<>> =>
              http.transport = "ok" /\ http.status = HTTP_OK /\ IsArrayBody(http)
        /\ ~(http.transport = "ok" /\ http.status = HTTP_OK /\ IsArrayBody(http)) =>
              raw_context = PyList(<<>>)
        /\ (http.transport = "ok" /\ http.status = HTTP_OK /\ IsArrayBody(http)) =>
              raw_context = http.body.v

\* A 404 whose body is a non-empty array gave the empty list.
C7_Witness ==
    /\ pc = "generate"
    /\ http.transport = "ok"
    /\ http.status = 404
    /\ IsArrayBody(http)
    /\ http.body.v.v # <<>>
    /\ raw_context = PyList(<<>>)

\* The order of the external calls of one get_chatbot_reply.
CallKinds ==
    [i \in 1..Len(calls) |->
        IF IsKeywordCall(calls[i]) THEN "keywords"
        ELSE IF IsAnswerCall(calls[i]) THEN "answer"
        ELSE IF IsHttpCall(calls[i]) THEN "retrieval"
        ELSE "other"]

\* C10: the external calls of one get_chatbot_reply are, in this order, at
\* most one keyword backend call, exactly one retrieval request and at most
\* one answer-generation call: none is made twice, and the answer call
\* comes only after retrieval has returned.
C10_CallOrder ==
    /\ CallKinds \in {<<>>, <<"keywords">>, <<"retrieval">>, <<"keywords", "retrieval">>,
                      <<"retrieval", "answer">>, <<"keywords", "retrieval", "answer">>}
    /\ pc \in {"generate", "done"} => NumHttpCalls = 1
    /\ NumAnswerCalls = 1 => Done /\ http # NotSent
    /\ pc \in {"extract", "retrieve"} => NumHttpCalls = 0

\* Both backend calls failed; each was made once.
C10_Witness ==
    /\ Done
    /\ kw_resp.gen = "raises"
    /\ ans_resp.gen = "raises"
    /\ CallKinds = <<"keywords", "retrieval", "answer">>

-----------------------------------------------------------------------------
(* Properties of extract_keywords_from_query *)

KeywordsReturned == pc # "extract"

\* The query as a str: an absent query counts as the empty one.
QueryText == IF user_input.k = "str" THEN user_input.v ELSE <<>>

AtLeastThree(t) == Len(t) >= 3

\* The deterministic fallback as the specification words it: the lowercased
\* tokens of more than 2 characters, the first 8 of them, or the sentinel.
ExpectedFallback(q) ==
    LET long == SelectSeq(Split(Lower(q)), AtLeastThree)
        first == IF Len(long) > 8 THEN SubSeq(long, 1, 8) ELSE long
    IN  IF first = <<>> THEN <<"k", "e", "m", "a", "h">> ELSE Join(<<" ">>, first)

\* The backend call failed: generate_content raised, or reading the text of
\* its response did.
BackendFailed(resp) == resp.gen = "raises" \/ (resp.gen = "ok" /\ resp.text.k = "raises")

\* C8: extract_keywords_from_query never raises and returns a non-empty
\* keyword str of at most 12 blank-separated tokens; when the backend call
\* fails the result is the deterministic fallback for the query.
C8_KeywordsBounded ==
    KeywordsReturned =>
        /\ ~raised
        /\ keywords.k = "str"
        /\ keywords.v # <<>>
        /\ Split(keywords.v) # <<>>
        /\ Len(Split(keywords.v)) <= 12
        /\ Join(<<" ">>, Split(keywords.v)) = keywords.v
        /\ BackendFailed(kw_resp) => keywords.v = ExpectedFallback(QueryText)

\* The backend call failed on a query of more than 8 long tokens.
C8_Witness ==
    /\ KeywordsReturned
    /\ BackendFailed(kw_resp)
    /\ Len(SelectSeq(Split(QueryText), AtLeastThree)) > 8
    /\ Len(Split(keywords.v)) = 8

\* The backend answered with more than 12 keywords.
C8_TwelveReached ==
    /\ KeywordsReturned
    /\ kw_resp.gen = "ok"
    /\ kw_resp.text.k = "value"
    /\ Len(Split(keywords.v)) = 12

\* C9: for an absent, empty or whitespace-only query
\* extract_keywords_from_query returns the sentinel "kemah" and makes no
\* backend call, with or without a backend.
C9_SentinelWithoutCall ==
    (KeywordsReturned /\ \A i \in 1..Len(QueryText) : QueryText[i] \in {" ", "\n"}) =>
        /\ ~raised
        /\ keywords = PyStr(<<"k", "e", "m", "a", "h">>)
        /\ calls = <<>>
        /\ kw_resp = NotCalled

\* A query of blanks only, with a backend configured.
C9_Witness ==
    /\ KeywordsReturned
    /\ model = "GenerativeModel"
    /\ user_input.k = "str"
    /\ Len(user_input.v) >= 2
    /\ \A i \in 1..Len(user_input.v) : user_input.v[i] = " "
    /\ keywords = PyStr(<<"k", "e", "m", "a", "h">>)

-----------------------------------------------------------------------------
(* Properties of simplify_context *)

\* The first of keys that item holds with a value other than None; None
\* when there is none.
RECURSIVE FirstNonNull(_, _)
FirstNonNull(item, keys) ==
    IF keys = <<>> THEN PyNone
    ELSE IF Head(keys) \in DOMAIN item.v /\ item.v[Head(keys)] # PyNone
         THEN item.v[Head(keys)]
         ELSE FirstNonNull(item, Tail(keys))

\* The one record retrieval returned.
TheItem == raw_context.v[1]

Normalised == Done /\ Len(cleaned) = 1 /\ Len(raw_context.v) = 1

\* The price list of a record and the prices of its entries that convert,
\* each field read by the first-non-null rule.
ListedPrices(item) ==
    LET l == FirstNonNull(item, <<"price_items", "Price_Items">>) IN
    IF l.k = "list" THEN l.v ELSE <<>>

ParseablePrices(item) ==
    LET ps == ListedPrices(item) IN
    {Float(FirstNonNull(ps[i], <<"harga", "price", "harga_rupiah">>)).val.v :
        i \in {j \in 1..Len(ps) :
                 /\ ps[j].k = "dict"
                 /\ ~Float(FirstNonNull(ps[j], <<"harga", "price", "harga_rupiah">>)).exc}}

\* C2 as stated: for a record with at least one parseable price entry,
\* harga_termurah is the least of the parseable prices, an entry whose price
\* is 0 included.
C2_LowestOfParseablePrices ==
    (Normalised /\ ParseablePrices(TheItem) # {}) =>
        /\ cleaned[1].harga_termurah.k = "num"
        /\ cleaned[1].harga_termurah.v \in ParseablePrices(TheItem)
        /\ \A n \in ParseablePrices(TheItem) : cleaned[1].harga_termurah.v <= n

\* C3 as stated: each field of the normalised record is the value of the
\* first alias the record holds with a non-null value, a value such as 0 or
\* "" included.
C3_FirstNonNullAliasWins ==
    Normalised =>
        /\ cleaned[1].nama = FirstNonNull(TheItem, <<"name", "nama", "Nama_Tempat">>)
        /\ cleaned[1].lokasi = FirstNonNull(TheItem, <<"location", "lokasi", "Lokasi">>)
        /\ cleaned[1].rating = FirstNonNull(TheItem, <<"avg_rating", "Avg_Rating", "rating">>)
        /\ cleaned[1].fasilitas \in
              {FirstNonNull(TheItem, <<"facilities", "Facilities">>), PyStr(<<>>)}

-----------------------------------------------------------------------------
(* Properties of generate_augmented_response *)

FirstRecords == SubSeq(raw_context.v, 1, IF Len(raw_context.v) < 3 THEN Len(raw_context.v) ELSE 3)

\* C4 as stated: on a non-empty context whose records all normalise to a
\* record with no renderable field, the answer is the invalid-data apology
\* and neither the backend is called nor the list produced.
C4_InvalidDataWhenNothingRenderable ==
    (Done /\ Truthy(raw_context) /\ \A i \in 1..Len(cleaned) : RenderParts(cleaned[i]) = <<>>) =>
        /\ answer = PyStr(InvalidDataReply)
        /\ ans_resp = NotCalled

\* C4 amended: on a non-empty context none of whose first 3 records is a
\* mapping (each is skipped by simplify_context), the answer is the
\* invalid-data apology and the backend is not called; a mapping with no
\* renderable field is kept and answered from.
C4_InvalidDataWhenAllSkipped ==
    (Done /\ Truthy(raw_context) /\ \A i \in 1..Len(FirstRecords) : FirstRecords[i].k # "dict") =>
        /\ answer = PyStr(InvalidDataReply)
        /\ ans_resp = NotCalled
        /\ NumAnswerCalls = 0

\* Three records that are no mappings, then a full record past the limit.
C4_Witness ==
    /\ Done
    /\ model = "GenerativeModel"
    /\ Len(raw_context.v) = 4
    /\ \A i \in 1..3 : raw_context.v[i].k # "dict"
    /\ raw_context.v[4].k = "dict"
    /\ answer = PyStr(InvalidDataReply)

\* What generate_augmented_response answers on the same query and context
\* when no backend is configured.
AnswerWithoutBackend ==
    generate_augmented_response(user_input, raw_context, "None", NotCalled).val

\* The candidate walk was entered and raised.
WalkFailed(resp) ==
    /\ resp.gen = "ok"
    /\ resp.text.k = "absent" \/ (resp.text.k = "value" /\ ~Truthy(resp.text.v))
    /\ resp.cands.k = "raises"

\* C5 as stated: with a backend configured, after any exception in the
\* answer-generation call or in the extraction of its text (direct accessor
\* or candidate walk) the answer is the templated answer of the no-backend
\* case.
C5_TemplateOnAnyException ==
    (Done /\ model # "None" /\ (BackendFailed(ans_resp) \/ WalkFailed(ans_resp))) =>
        answer = AnswerWithoutBackend

\* C5 amended: with a backend configured, when the answer-generation call
\* raises or reading the direct text of its response raises, the answer is
\* the templated answer of the no-backend case; an exception in the
\* candidate walk is swallowed and the answer is the no-answer apology.
C5_TemplateOnCallFailure ==
    /\ (Done /\ model # "None" /\ BackendFailed(ans_resp)) =>
          /\ ~raised
          /\ answer = AnswerWithoutBackend
          /\ answer.v = Join(<<"\n">>, TemplateLines(simplify_context(raw_context.v)))
    /\ (Done /\ model # "None" /\ WalkFailed(ans_resp)) =>
          /\ ~raised
          /\ answer = PyStr(NoAnswerReply)

\* Reading the text of the response raised, on a context of more records
\* than the limit.
C5_Witness ==
    /\ Done
    /\ model # "None"
    /\ ans_resp.gen = "ok"
    /\ ans_resp.text.k = "raises"
    /\ Len(raw_context.v) > 3
    /\ Len(cleaned) = 3
    /\ answer = AnswerWithoutBackend

====
